---- MODULE Spec2Model ----
(***************************************************************************)
(* Active ragdoll character controller of arena-combat                     *)
(* (src/physics/ragdoll.rs, src/physics/muscle.rs).                        *)
(*                                                                         *)
(* f32 quantities are fixed-point integers:                                *)
(*   - simulated time, Recovery progress, global_strength and the walk     *)
(*     phase are counted in eighths (One = 1.0, a delta of 8 is 1 second); *)
(*   - a muscle's strength is counted in 1/10000 (StrengthOne = 1.0);      *)
(*   - angles and angular velocities are counted in 1/10 rad (rad/s);      *)
(*   - input directions are counted in 1/20, unit directions in 1/5,       *)
(*     target_position in 1/40 (= 1/5 * 1/8).                              *)
(* The rigid bodies belong to the physics engine: what update() reads from *)
(* them (rotation error, angular velocity) is an input of the action.      *)
(***************************************************************************)
EXTENDS Integers, Sequences, FiniteSets, TLC

VARIABLES
    mode,             \* ActiveRagdoll.mode: [kind, progress]
    global_strength,  \* ActiveRagdoll.muscles.global_strength
    strength,         \* muscles.muscles[b].strength, per actuated bone
    muscle_target,    \* muscles.muscles[b].target_rotation, per actuated bone
    walk_phase,       \* walk_cycle.phase
    is_walking,       \* ActiveRagdoll.is_walking
    move_direction,   \* ActiveRagdoll.move_direction
    target_yaw,       \* ActiveRagdoll.target_yaw, as the arguments of atan2
    target_position,  \* ActiveRagdoll.target_position
    control_applied,  \* whether the last update() ran the steering and upright torques
    applied_torque,   \* torque handed to PhysicsWorld::apply_torque per bone by the last update()
    last_call,        \* the method of ActiveRagdoll that returned last
    recovery_clock,   \* simulated time since the last start_recovery(), saturating
    tq,               \* one call of Muscle::calculate_torque: its inputs and its result
    bodies,           \* the bones skeleton.bodies holds a handle for
    joints,           \* the bones skeleton.joints holds a handle for
    rigid_body_set,   \* the bones whose body exists in PhysicsWorld.rigid_body_set
    build,            \* Skeleton::create_humanoid: the loop it is in and the next index
    walk,             \* a walk up BoneId::parent: where it started, the bones visited
    snapshot,         \* what the last get_bone_transforms() returned (bones only)
    impulse_skipped,  \* the bone whose body the last apply_impact() did not find, else None
    tick,             \* the last update(): its steps in order, what the muscle step read
    frame,            \* the frame loop of main.rs: frame number, position, input
    combat,           \* App.combat: state, attack_direction, attack_progress
    hitboxes,         \* App.hitbox_manager.hitboxes
    enemies,          \* App.enemies
    combat_frame      \* the last combat step of the frame loop: what it saw and did

vars == <<mode, global_strength, strength, muscle_target, walk_phase, is_walking,
          move_direction, target_yaw, target_position, control_applied,
          applied_torque, last_call, recovery_clock, tq,
          bodies, joints, rigid_body_set, build, walk, snapshot, impulse_skipped, tick, frame,
          combat, hitboxes, enemies, combat_frame>>

combat_vars == <<combat, hitboxes, enemies, combat_frame>>

noncombat_vars == <<mode, global_strength, strength, muscle_target, walk_phase,
                    is_walking, move_direction, target_yaw, target_position,
                    control_applied, applied_torque, last_call, recovery_clock, tq,
                    bodies, joints, rigid_body_set, build, walk, snapshot,
                    impulse_skipped, tick, frame>>

world_vars == <<bodies, joints, rigid_body_set, build, walk, snapshot, impulse_skipped>>

controller_vars == <<mode, global_strength, strength, muscle_target, walk_phase, is_walking,
                     move_direction, target_yaw, target_position, control_applied,
                     applied_torque, last_call, recovery_clock>>

ragdoll_vars == <<mode, global_strength, strength, muscle_target, walk_phase, is_walking,
                  move_direction, target_yaw, target_position, control_applied,
                  applied_torque, last_call, recovery_clock, world_vars, tick, frame,
                  combat_vars>>

-----------------------------------------------------------------------------
(* Fixed-point units *)

One == 2^3
StrengthOne == 10^4

Min(a, b) == IF a <= b THEN a ELSE b
Max(a, b) == IF a >= b THEN a ELSE b
Abs(a) == IF a < 0 THEN -a ELSE a
Sign(a) == IF a < 0 THEN -1 ELSE IF a > 0 THEN 1 ELSE 0

(* Bounds of the model *)
MaxPhase == 1        \* update() is not taken when it would push the phase past MaxPhase.0
MaxTravel == 1       \* nor when it would move target_position further than this from the spawn point
MaxFrames == 3       \* frames the frame loop is followed for

Deltas == {0, 2, 8}          \* frame times: 0 s, 0.25 s, 1 s (a stalled frame)
PosDeltas == Deltas \ {0}

-----------------------------------------------------------------------------
(* Vectors *)

\* The vector operations are functions, so that an argument is evaluated once.
Vec3 == Int \X Int \X Int
Zero3 == <<0, 0, 0>>
Add3[a \in Vec3, b \in Vec3] == <<a[1] + b[1], a[2] + b[2], a[3] + b[3]>>
Scale3[a \in Vec3, k \in Int] == <<a[1] * k, a[2] * k, a[3] * k>>
VecAdd(a, b) == Add3[a, b]
VecScale(a, k) == Scale3[a, k]
LengthSquared(a) == a[1] * a[1] + a[2] * a[2] + a[3] * a[3]

\* Vec3::length on the vectors of calculate_torque, which lie along one
\* coordinate axis in this model (the angular velocity is about the error axis).
AxisLength3[a \in Vec3] == Abs(a[1]) + Abs(a[2]) + Abs(a[3])
AxisLength(a) == AxisLength3[a]
\* Vec3::normalize on such a vector
AxisNormalize3[a \in Vec3] == <<Sign(a[1]), Sign(a[2]), Sign(a[3])>>
AxisNormalize(a) == AxisNormalize3[a]

-----------------------------------------------------------------------------
(* Bones and muscles *)

\* mutant of AllBones: the head is visited before the spine
AllBonesChildFirst ==
    <<"Pelvis", "Head", "Spine", "LeftUpperArm", "LeftLowerArm",
      "RightUpperArm", "RightLowerArm", "LeftUpperLeg", "LeftLowerLeg",
      "RightUpperLeg", "RightLowerLeg">>

\* BoneId::all_bones
AllBones == <<"Pelvis", "Spine", "Head", "LeftUpperArm", "LeftLowerArm",
              "RightUpperArm", "RightLowerArm", "LeftUpperLeg", "LeftLowerLeg",
              "RightUpperLeg", "RightLowerLeg">>

BoneId == {AllBones[i] : i \in 1..Len(AllBones)}

\* Option::None
None == "None"

\* mutant of parent: the head hangs on the left forearm
ParentHeadOnForearm(b) ==
    CASE b = "Pelvis" -> None
      [] b \in {"Spine", "LeftUpperLeg", "RightUpperLeg"} -> "Pelvis"
      [] b \in {"LeftUpperArm", "RightUpperArm"} -> "Spine"
      [] b = "Head" -> "LeftLowerArm"
      [] b = "LeftLowerArm" -> "LeftUpperArm"
      [] b = "RightLowerArm" -> "RightUpperArm"
      [] b = "LeftLowerLeg" -> "LeftUpperLeg"
      [] b = "RightLowerLeg" -> "RightUpperLeg"

\* BoneId::parent
parent(b) ==
    CASE b = "Pelvis" -> None
      [] b = "Spine" -> "Pelvis"
      [] b = "Head" -> "Spine"
      [] b = "LeftUpperArm" -> "Spine"
      [] b = "LeftLowerArm" -> "LeftUpperArm"
      [] b = "RightUpperArm" -> "Spine"
      [] b = "RightLowerArm" -> "RightUpperArm"
      [] b = "LeftUpperLeg" -> "Pelvis"
      [] b = "LeftLowerLeg" -> "LeftUpperLeg"
      [] b = "RightUpperLeg" -> "Pelvis"
      [] b = "RightLowerLeg" -> "RightUpperLeg"

\* MuscleSystem::create_humanoid: gains and max torque of each muscle
MuscleParams ==
    [Spine         |-> [kp |-> 800,  kd |-> 80,  max_torque |-> 500],
     Head          |-> [kp |-> 250,  kd |-> 25,  max_torque |-> 120],
     LeftUpperArm  |-> [kp |-> 400,  kd |-> 40,  max_torque |-> 200],
     LeftLowerArm  |-> [kp |-> 300,  kd |-> 30,  max_torque |-> 150],
     RightUpperArm |-> [kp |-> 400,  kd |-> 40,  max_torque |-> 200],
     RightLowerArm |-> [kp |-> 300,  kd |-> 30,  max_torque |-> 150],
     LeftUpperLeg  |-> [kp |-> 1000, kd |-> 100, max_torque |-> 800],
     LeftLowerLeg  |-> [kp |-> 800,  kd |-> 80,  max_torque |-> 600],
     RightUpperLeg |-> [kp |-> 1000, kd |-> 100, max_torque |-> 800],
     RightLowerLeg |-> [kp |-> 800,  kd |-> 80,  max_torque |-> 600]]

MuscleBones == DOMAIN MuscleParams

-----------------------------------------------------------------------------
(* Muscle::calculate_torque *)

PI == 31     \* std::f32::consts::PI, in 1/10 rad
TAU == 62    \* std::f32::consts::TAU, in 1/10 rad

\* mutant of Relaxed: the threshold is 0.001
RelaxedBelowThousandth(s) == s * 1000 < StrengthOne

\* The 0.01 threshold on Muscle.strength
Relaxed(s) == s * 100 < StrengthOne

\* max_torque in the unit of a torque scaled by a strength: 1/10 N*m / StrengthOne
ScaledMax(max_torque) == max_torque * 10 * StrengthOne

\* The shortest-path branch on the angle of the error quaternion
ShortestAngle(angle) ==
    IF angle > PI THEN angle - TAU
    ELSE IF angle < -PI THEN angle + TAU
    ELSE angle

\* clamp_magnitude: v when it is no longer than limit, else v shortened to limit
ClampMagnitude(v, limit) ==
    IF AxisLength(v) > limit THEN VecScale(AxisNormalize(v), limit) ELSE v

\* Kp*axis*angle + Kd*(-angular_velocity), in 1/10 N*m
PDTerm(m, axis, angle, angular_velocity) ==
    VecAdd(VecScale(axis, ShortestAngle(angle) * m.kp),
           VecScale(angular_velocity, -m.kd))

\* mutants of calculate_torque
CalculateTorqueNoThreshold(m, axis, angle, angular_velocity) ==
    ClampMagnitude(VecScale(PDTerm(m, axis, angle, angular_velocity), m.strength),
                   ScaledMax(m.max_torque))

CalculateTorqueNoClamp(m, axis, angle, angular_velocity) ==
    IF Relaxed(m.strength) THEN Zero3
    ELSE VecScale(PDTerm(m, axis, angle, angular_velocity), m.strength)

\* m is the muscle [kp, kd, max_torque, strength]; axis and angle are the
\* axis-angle form of target_rotation * inverse(current_rotation).
\* The result is in 1/10 N*m / StrengthOne.
calculate_torque(m, axis, angle, angular_velocity) ==
    IF Relaxed(m.strength) THEN Zero3
    ELSE LET p_term == VecScale(axis, ShortestAngle(angle) * m.kp)
             d_term == VecScale(angular_velocity, -m.kd)
             torque == VecScale(VecAdd(p_term, d_term), m.strength)
         IN  IF AxisLength(torque) > ScaledMax(m.max_torque)
             THEN VecScale(AxisNormalize(torque), ScaledMax(m.max_torque))
             ELSE torque

\* A muscle as calculate_torque reads it
MuscleOf(b, s) ==
    [kp |-> MuscleParams[b].kp, kd |-> MuscleParams[b].kd,
     max_torque |-> MuscleParams[b].max_torque, strength |-> s]

(***************************************************************************)
(* Poses: rotations are kept symbolic.  Rot(k, a) is the rotation about  *)
(* axis k by a/10 rad; the rotations of get_pose that follow the phase are *)
(* kept as the phase they were generated from.                             *)
(***************************************************************************)

Rot(k, a) == [kind |-> k, angle |-> a, phase |-> 0]
Identity == [kind |-> "identity", angle |-> 0, phase |-> 0]

\* TargetPose::standing
Standing ==
    [b \in BoneId |->
        CASE b = "LeftUpperArm"  -> Rot("z", -3)
          [] b = "RightUpperArm" -> Rot("z", 3)
          [] b = "LeftLowerArm"  -> Rot("x", 2)
          [] b = "RightLowerArm" -> Rot("x", 2)
          [] OTHER -> Identity]

\* WalkCycle::get_pose
GetPose(phase) ==
    [b \in BoneId |->
        CASE b \in {"LeftLowerArm", "RightLowerArm"} -> Rot("x", 3)
          [] b \in {"Pelvis", "Head"} -> Identity
          [] OTHER -> [kind |-> "walk", angle |-> 0, phase |-> phase]]

\* MuscleSystem::set_pose
SetPose(targets, pose) ==
    [b \in DOMAIN targets |-> IF b \in DOMAIN pose THEN pose[b] ELSE targets[b]]

-----------------------------------------------------------------------------
(* WalkCycle::update *)

WalkSpeed == 1     \* WalkCycle.speed

\* mutants of WalkCycleUpdate
WalkCycleUpdateAlways(phase, delta, walking) ==
    LET p == phase + delta * WalkSpeed * 2
    IN  IF p >= One THEN p - One ELSE p

WalkCycleUpdate(phase, delta, walking) ==
    IF walking
    THEN LET p == phase + delta * WalkSpeed * 2
         IN  IF p >= One THEN p - One ELSE p
    ELSE phase

-----------------------------------------------------------------------------
(* The mode match of ActiveRagdoll::update *)

Active == [kind |-> "Active", progress |-> 0]
Ragdoll == [kind |-> "Ragdoll", progress |-> 0]
Recovery(p) == [kind |-> "Recovery", progress |-> p]

\* mutants of ResolveMode
ResolveModeRagdollWakes(m, gs, delta) ==
    CASE m.kind = "Active"  -> [mode |-> m, global_strength |-> One]
      [] m.kind = "Ragdoll" -> [mode |-> Active, global_strength |-> 0]
      [] OTHER ->
            LET new_progress == Min(m.progress + delta \div 2, One)
            IN  [mode |-> IF new_progress >= One THEN Active ELSE Recovery(new_progress),
                 global_strength |-> new_progress]

ResolveModeNeverDone(m, gs, delta) ==
    CASE m.kind = "Active"  -> [mode |-> m, global_strength |-> One]
      [] m.kind = "Ragdoll" -> [mode |-> m, global_strength |-> 0]
      [] OTHER ->
            LET new_progress == Min(m.progress + delta \div 2, One)
            IN  [mode |-> IF new_progress > One THEN Active ELSE Recovery(new_progress),
                 global_strength |-> new_progress]

ResolveModeNoCap(m, gs, delta) ==
    CASE m.kind = "Active"  -> [mode |-> m, global_strength |-> One]
      [] m.kind = "Ragdoll" -> [mode |-> m, global_strength |-> 0]
      [] OTHER ->
            LET new_progress == m.progress + delta \div 2
            IN  [mode |-> IF new_progress >= One THEN Active ELSE Recovery(new_progress),
                 global_strength |-> new_progress]

ResolveModeStaleStrength(m, gs, delta) ==
    CASE m.kind = "Active"  -> [mode |-> m, global_strength |-> One]
      [] m.kind = "Ragdoll" -> [mode |-> m, global_strength |-> 0]
      [] OTHER ->
            LET new_progress == Min(m.progress + delta \div 2, One)
            IN  [mode |-> IF new_progress >= One THEN Active ELSE Recovery(new_progress),
                 global_strength |-> m.progress]

\* delta * 0.5 is delta \div 2: every delta of the model is even
ResolveMode(m, gs, delta) ==
    CASE m.kind = "Active"  -> [mode |-> m, global_strength |-> One]
      [] m.kind = "Ragdoll" -> [mode |-> m, global_strength |-> 0]
      [] OTHER ->
            LET new_progress == Min(m.progress + delta \div 2, One)
            IN  [mode |-> IF new_progress >= One THEN Active ELSE Recovery(new_progress),
                 global_strength |-> new_progress]


-----------------------------------------------------------------------------
(* ActiveRagdoll *)

MoveSpeed == 3     \* ActiveRagdoll.move_speed

\* Simulated time a recovery takes: progress grows by 0.5 per second
RecoveryDuration == 2 * One

\* Inputs of set_move_direction, in 1/20: no input, a direction too short to
\* count, and (3, 0, 4)
Directions == {<<0, 0, 0>>, <<0, 0, 1>>, <<60, 0, 80>>}

\* Bones apply_impact is called on
ImpactBones == {"Pelvis", "Spine"}

\* What update() reads from the bodies: the axis-angle form of the rotation
\* error (0.5 rad about X) and the angular velocity (0.1 rad/s about X).
\* Every body shows the same reading.
Observations ==
    {[axis |-> <<1, 0, 0>>, angle |-> 5, angular_velocity |-> <<1, 0, 0>>]}

\* Vec3::length of an input direction (the inputs have whole lengths)
VecLength(d) == CHOOSE n \in 0..200 : n * n = LengthSquared(d)
\* Vec3::normalize of an input direction, in 1/5
Normalize(d) ==
    <<(d[1] * 5) \div VecLength(d), (d[2] * 5) \div VecLength(d), (d[3] * 5) \div VecLength(d)>>

WithinTravel(p) == \A i \in 1..3 : Abs(p[i]) <= MaxTravel * 5 * One

\* mutants of ImpactStrength
ImpactStrengthHalf(s) == s \div 2

\* muscle.strength *= 0.3
ImpactStrength(s) == (3 * s) \div 10

\* The strengths a muscle can have: 1.0 and what impacts make of it
RECURSIVE ImpactChain(_)
ImpactChain(s) ==
    IF (3 * s) % 10 = 0 /\ s > 0 THEN {s} \cup ImpactChain(ImpactStrength(s)) ELSE {s}

\* Arguments of set_muscle_strength: -0.5, 0.3 and 1.5
StrengthInputs == {-5000, 3000, 15000}

\* Bones set_muscle_strength is called on
StrengthBones == {"Pelvis", "Spine"}

\* mutant of ClampStrength: only the upper end is clamped
ClampStrengthAbove(s) == IF s > StrengthOne THEN StrengthOne ELSE s

\* strength.clamp(0.0, 1.0)
ClampStrength(s) == IF s < 0 THEN 0 ELSE IF s > StrengthOne THEN StrengthOne ELSE s

StrengthLevels ==
    ImpactChain(StrengthOne) \cup UNION {ImpactChain(ClampStrength(s)) : s \in StrengthInputs}

\* calculate_torque of every muscle at every strength under every reading,
\* computed once
TorqueTable ==
    [obs \in Observations |-> [b \in MuscleBones |-> [s \in StrengthLevels |->
        calculate_torque(MuscleOf(b, s), obs.axis, obs.angle, obs.angular_velocity)]]]

\* skeleton.bodies.get(&b) and then rigid_body_set.get(handle) both give Some
HasBody(b) == b \in bodies /\ b \in rigid_body_set

\* mutant of MuscleTorques: global_strength is not applied
MuscleTorquesUnscaled(str, gs, obs) ==
    [b \in MuscleBones |->
        IF HasBody(b) THEN VecScale(TorqueTable[obs][b][str[b]], One) ELSE Zero3]

\* MuscleSystem::update: the torque of every muscle, times global_strength;
\* a muscle whose bone has no body is passed over
MuscleTorques(str, gs, obs) ==
    [b \in MuscleBones |->
        IF HasBody(b) THEN VecScale(TorqueTable[obs][b][str[b]], gs) ELSE Zero3]

\* mutant of BoneTransforms: a handle is taken for a body
BoneTransformsByHandle == SelectSeq(AllBones, LAMBDA b : b \in bodies)

\* ActiveRagdoll::get_bone_transforms: filter_map over all_bones(), a bone
\* stays when its position and its rotation are both found
BoneTransforms == SelectSeq(AllBones, LAMBDA b : HasBody(b))

\* The frame loop before its first frame
FrameAtRest ==
    [count |-> 0, pc |-> "events", keys |-> Zero3, calls |-> <<>>,
     input_frame |-> 0, used_input |-> 0]

-----------------------------------------------------------------------------
(* Combat, HitboxManager and Enemy.  Times are in 1/20 s, attack_progress in *)
(* 1/TotalDuration; weapon_swing_angle, read by the renderer only, is left   *)
(* out.  An enemy is named by its place in App.enemies, counted from 1.      *)

\* AttackPhases::default
AttackPhases == [anticipation |-> 2, action |-> 3, recovery |-> 2]

\* AttackPhases::total_duration
TotalDuration == AttackPhases.anticipation + AttackPhases.action + AttackPhases.recovery

AttackCooldown == 3     \* Combat.attack_cooldown
HitboxLifetime == 3     \* the lifetime spawn_attack_hitbox gives a hitbox
HitboxDamage == 50      \* the damage the frame loop passes to spawn_attack_hitbox
EnemyHealth == 100      \* Enemy.health of a new enemy

\* AttackState
Ready == [kind |-> "Ready", remaining |-> 0]
Attacking(remaining) == [kind |-> "Attacking", remaining |-> remaining]
Cooldown(remaining) == [kind |-> "Cooldown", remaining |-> remaining]

\* Frame times of the combat step: 0, 0.05 s, 0.1 s and 0.4 s
CombatDeltas == {0, 1, 2, 8}

\* Directions of an attack, in 1/20: none, straight ahead and (3, 0, 4)
AttackDirections == {<<0, 0, 0>>, <<0, 0, -20>>, <<60, 0, 80>>}

\* Vec3::normalize_or_zero of an attack direction, in 1/5
NormalizeOrZero(d) == IF LengthSquared(d) = 0 THEN Zero3 ELSE Normalize(d)

\* Combat::new; returned is what the last start_attack returned, FALSE before
\* the first
CombatNew ==
    [state |-> Ready, attack_direction |-> <<0, 0, -5>>, attack_progress |-> 0,
     returned |-> FALSE]

\* Combat::can_attack
can_attack(c) == c.state.kind = "Ready"

\* mutant of start_attack: an attack restarts whatever the state
StartAttackAnyState(c, direction) ==
    [state |-> Attacking(TotalDuration),
     attack_direction |-> NormalizeOrZero(direction),
     attack_progress |-> 0,
     returned |-> TRUE]

\* Combat::start_attack
start_attack(c, direction) ==
    IF ~can_attack(c)
    THEN [c EXCEPT !.returned = FALSE]
    ELSE [state |-> Attacking(TotalDuration),
          attack_direction |-> NormalizeOrZero(direction),
          attack_progress |-> 0,
          returned |-> TRUE]

\* Combat::get_phase
get_phase(c) ==
    IF c.state.kind = "Attacking"
    THEN LET elapsed == TotalDuration - c.state.remaining
         IN  IF elapsed < AttackPhases.anticipation
             THEN "Anticipation"
             ELSE IF elapsed < AttackPhases.anticipation + AttackPhases.action
                  THEN "Action"
                  ELSE "Recovery"
    ELSE None

\* Combat::is_hitbox_active
is_hitbox_active(c) == get_phase(c) = "Action"

\* mutant of CombatUpdate: a finished attack needs no cooldown
CombatUpdateNoCooldown(c, delta) ==
    CASE c.state.kind = "Ready" -> c
      [] c.state.kind = "Attacking" ->
            IF c.state.remaining - delta <= 0
            THEN [c EXCEPT !.state = Ready, !.attack_progress = TotalDuration]
            ELSE [c EXCEPT !.state = Attacking(c.state.remaining - delta),
                           !.attack_progress =
                               TotalDuration - Max(c.state.remaining - delta, 0)]
      [] c.state.kind = "Cooldown" ->
            IF c.state.remaining - delta <= 0
            THEN [c EXCEPT !.state = Ready, !.attack_progress = 0]
            ELSE [c EXCEPT !.state = Cooldown(c.state.remaining - delta)]

\* Combat::update
CombatUpdate(c, delta) ==
    CASE c.state.kind = "Ready" -> c
      [] c.state.kind = "Attacking" ->
            IF c.state.remaining - delta <= 0
            THEN [c EXCEPT !.state = Cooldown(AttackCooldown),
                           !.attack_progress = TotalDuration]
            ELSE [c EXCEPT !.state = Attacking(c.state.remaining - delta),
                           !.attack_progress =
                               TotalDuration - Max(c.state.remaining - delta, 0)]
      [] c.state.kind = "Cooldown" ->
            IF c.state.remaining - delta <= 0
            THEN [c EXCEPT !.state = Ready, !.attack_progress = 0]
            ELSE [c EXCEPT !.state = Cooldown(c.state.remaining - delta)]

\* Hitbox::new as spawn_attack_hitbox calls it.  reach, the enemies whose
\* sphere the hitbox's sphere overlaps, stands for its position; taken counts
\* the take_damage calls the hitbox has made per enemy.
NewHitbox(reach) ==
    [lifetime |-> HitboxLifetime, damage |-> HitboxDamage, hit_enemies |-> <<>>,
     reach |-> reach, taken |-> [i \in reach |-> 0]]

\* Hitbox::is_active
is_active(h) == h.lifetime > 0

\* Hitbox::has_hit
has_hit(h, i) == \E k \in 1..Len(h.hit_enemies) : h.hit_enemies[k] = i

\* Hitbox::collides_with_sphere, on the sphere of enemy i
collides_with_sphere(h, i) == i \in h.reach

\* mutant of mark_hit: the enemy is not remembered
MarkHitForgets(h, i) == h

\* Hitbox::mark_hit
mark_hit(h, i) == [h EXCEPT !.hit_enemies = Append(@, i)]

\* HitboxManager::update: Hitbox::update on every hitbox, then retain
HitboxManagerUpdate(hs, delta) ==
    SelectSeq([k \in 1..Len(hs) |-> [hs[k] EXCEPT !.lifetime = @ - delta]],
              LAMBDA h : is_active(h))

\* Enemy::new
NewEnemy == [health |-> EnemyHealth, state |-> "Alive"]

\* Enemy::is_alive
is_alive(e) == e.state = "Alive" /\ e.health > 0

\* Enemy::take_damage
take_damage(e, damage) ==
    IF ~is_alive(e)
    THEN e
    ELSE [health |-> Max(e.health - damage, 0),
          state |-> IF Max(e.health - damage, 0) <= 0 THEN "Dead" ELSE e.state]

\* App.enemies: none, as main() builds the App, or two as spawn_enemies_circle
\* would give
EnemyLists == {<<>>, <<NewEnemy, NewEnemy>>}

\* The body of the collision loop of the frame for hitbox h and enemy i; st
\* carries the hitboxes, the enemies and the enemies that lost health
CheckPair(st, h, i) ==
    IF ~is_alive(st.enemies[i]) \/ has_hit(st.hitboxes[h], i)
    THEN st
    ELSE IF collides_with_sphere(st.hitboxes[h], i)
         THEN [st EXCEPT
                 !.enemies[i] = take_damage(@, st.hitboxes[h].damage),
                 !.hitboxes[h] = [mark_hit(@, i) EXCEPT !.taken[i] = @ + 1],
                 !.damaged = @ \cup {i}]
         ELSE st

\* The two nested loops: every hitbox against every enemy, in order
RECURSIVE CollisionLoop(_, _, _)
CollisionLoop(st, h, i) ==
    IF h > Len(st.hitboxes)
    THEN st
    ELSE IF i > Len(st.enemies)
         THEN CollisionLoop(st, h + 1, 1)
         ELSE CollisionLoop(CheckPair(st, h, i), h, i + 1)

\* What the last combat step was (new, an attack click or a frame), the frame
\* time it used, the attack phase it left, the enemies that lost health in
\* it and the hitboxes it removed
CombatFrameAtRest ==
    [call |-> "new", delta |-> 0, phase |-> None, damaged |-> {}, spent |-> 0]

\* The combat fields of the App main() builds
CombatAtRest ==
    /\ combat = CombatNew
    /\ hitboxes = <<>>
    /\ enemies = <<>>
    /\ combat_frame = CombatFrameAtRest

\* ActiveRagdoll::new
InitRagdoll ==
    /\ mode = Ragdoll
    /\ global_strength = One
    /\ strength = [b \in MuscleBones |-> StrengthOne]
    /\ muscle_target = [b \in MuscleBones |-> Identity]
    /\ walk_phase = 0
    /\ is_walking = FALSE
    /\ move_direction = <<0, 0, -5>>
    /\ target_yaw = [y |-> 0, x |-> 1]
    /\ target_position = Zero3
    /\ control_applied = FALSE
    /\ applied_torque = [b \in MuscleBones |-> Zero3]
    /\ last_call = "new"
    /\ recovery_clock = 0

\* The skeleton as Skeleton::create_humanoid leaves it, and the ghosts at rest
InitWorld ==
    /\ bodies = BoneId
    /\ joints = BoneId \ {"Pelvis"}
    /\ rigid_body_set = BoneId
    /\ build = [stage |-> "done", i |-> 1, n_bodies |-> Len(AllBones),
                n_joints |-> Len(AllBones) - 1]
    /\ walk = [start |-> "Pelvis", bone |-> "Pelvis", path |-> <<"Pelvis">>]
    /\ snapshot = <<>>
    /\ impulse_skipped = None
    /\ tick = [steps |-> <<>>, targets |-> [b \in MuscleBones |-> Identity]]
    /\ frame = FrameAtRest

Init ==
    /\ InitRagdoll
    /\ InitWorld
    /\ CombatAtRest
    /\ tq = [called |-> FALSE]

\* mutant of UpdateSteps: the muscle torques are applied before the pose is set
UpdateStepsTorqueFirst(m) ==
    <<"match self.mode">>
    \o (IF m.kind = "Active" THEN <<"apply_movement_control", "apply_upright_torque">>
                              ELSE <<>>)
    \o <<"muscles.update", "walk_cycle.update", "current_pose", "muscles.set_pose">>

\* The statements of ActiveRagdoll::update in the order they run; m is the mode
\* the match leaves
UpdateSteps(m) ==
    <<"match self.mode">>
    \o (IF m.kind = "Active" THEN <<"apply_movement_control", "apply_upright_torque">>
                              ELSE <<>>)
    \o <<"walk_cycle.update", "current_pose", "muscles.set_pose", "muscles.update">>

\* Whether statement a of an update() ran, and ran before statement b
RanBefore(steps, a, b) ==
    \E i, j \in 1..Len(steps) : i < j /\ steps[i] = a /\ steps[j] = b

\* mutant of ControlRuns: the mode the update started in decides
ControlRunsOnEntryMode(m) == mode.kind = "Active" /\ HasBody("Pelvis")

\* Whether update() reaches the forces and torques of apply_movement_control
\* and apply_upright_torque: m is the mode the match leaves, and both look the
\* pelvis body up first
ControlRuns(m) == m.kind = "Active" /\ HasBody("Pelvis")

\* mutant of TargetAfter: the target advances in every mode
TargetAfterAnyMode(m, delta) ==
    IF is_walking /\ HasBody("Pelvis")
    THEN VecAdd(target_position, VecScale(move_direction, MoveSpeed * delta))
    ELSE target_position

\* target_position after update(): apply_movement_control advances it while
\* walking; m is the mode the match leaves
TargetAfter(m, delta) ==
    IF m.kind = "Active" /\ is_walking /\ HasBody("Pelvis")
    THEN VecAdd(target_position, VecScale(move_direction, MoveSpeed * delta))
    ELSE target_position

\* ActiveRagdoll::update, apply_movement_control and MuscleSystem::update
Update(delta, obs) ==
    /\ last_call' = "update"
    /\ \E r \in {ResolveMode(mode, global_strength, delta)},
       phase \in {WalkCycleUpdate(walk_phase, delta, is_walking)} :
      \E position \in {TargetAfter(r.mode, delta)},
         current_pose \in {IF is_walking THEN GetPose(phase) ELSE Standing},
         steps \in {UpdateSteps(r.mode)} :
       \E targets \in {SetPose(muscle_target, current_pose)} :
        /\ phase <= MaxPhase * One
        /\ WithinTravel(position)
        /\ mode' = r.mode
        /\ global_strength' = r.global_strength
        /\ control_applied' = ControlRuns(r.mode)
        /\ target_position' = position
        /\ walk_phase' = phase
        /\ muscle_target' = targets
        /\ tick' = [steps |-> steps,
                    targets |-> IF RanBefore(steps, "muscles.set_pose", "muscles.update")
                                THEN targets
                                ELSE muscle_target]
        /\ applied_torque' = MuscleTorques(strength, r.global_strength, obs)
        /\ recovery_clock' = IF mode.kind = "Recovery"
                             THEN Min(recovery_clock + delta, RecoveryDuration)
                             ELSE recovery_clock
        /\ UNCHANGED <<strength, is_walking, move_direction, target_yaw, tq, combat_vars, world_vars>>

\* mutant of SetMoveDirection: any direction that is not zero counts
SetMoveDirectionNoThreshold(direction) ==
    /\ IF LengthSquared(direction) > 0
       THEN /\ move_direction' = Normalize(direction)
            /\ is_walking' = TRUE
            /\ target_yaw' = [y |-> -direction[1], x |-> -direction[3]]
       ELSE /\ is_walking' = FALSE
            /\ UNCHANGED <<move_direction, target_yaw>>
    /\ last_call' = "set_move_direction"
    /\ UNCHANGED <<mode, global_strength, strength, muscle_target, walk_phase,
                   target_position, control_applied, applied_torque, recovery_clock,
                   tq, combat_vars, world_vars, tick>>

\* ActiveRagdoll::set_move_direction
SetMoveDirection(direction) ==
    /\ IF LengthSquared(direction) > 4
       THEN /\ move_direction' = Normalize(direction)
            /\ is_walking' = TRUE
            /\ target_yaw' = [y |-> -direction[1], x |-> -direction[3]]
       ELSE /\ is_walking' = FALSE
            /\ UNCHANGED <<move_direction, target_yaw>>
    /\ last_call' = "set_move_direction"
    /\ UNCHANGED <<mode, global_strength, strength, muscle_target, walk_phase,
                   target_position, control_applied, applied_torque, recovery_clock,
                   tq, combat_vars, world_vars, tick>>

\* mutant of GoRagdoll: the character keeps walking
GoRagdollKeepsWalking ==
    /\ mode' = Ragdoll
    /\ recovery_clock' = 0
    /\ last_call' = "go_ragdoll"
    /\ UNCHANGED <<global_strength, strength, muscle_target, walk_phase, is_walking,
                   move_direction, target_yaw, target_position, control_applied,
                   applied_torque, tq, combat_vars, world_vars, tick, frame>>

\* mutant of GoRagdoll: the muscles are relaxed at once
GoRagdollRelaxing ==
    /\ mode' = Ragdoll
    /\ is_walking' = FALSE
    /\ global_strength' = 0
    /\ recovery_clock' = 0
    /\ last_call' = "go_ragdoll"
    /\ UNCHANGED <<strength, muscle_target, walk_phase, move_direction,
                   target_yaw, target_position, control_applied, applied_torque, tq, combat_vars, world_vars, tick, frame>>

\* ActiveRagdoll::go_ragdoll
GoRagdoll ==
    /\ mode' = Ragdoll
    /\ is_walking' = FALSE
    /\ recovery_clock' = 0
    /\ last_call' = "go_ragdoll"
    /\ UNCHANGED <<global_strength, strength, muscle_target, walk_phase, move_direction,
                   target_yaw, target_position, control_applied, applied_torque, tq, combat_vars, world_vars, tick, frame>>

\* mutant of StartRecovery: the muscles get their full strength back
StartRecoveryHeals ==
    /\ mode' = Recovery(0)
    /\ recovery_clock' = 0
    /\ last_call' = "start_recovery"
    /\ strength' = [b \in MuscleBones |-> StrengthOne]
    /\ UNCHANGED <<global_strength, muscle_target, walk_phase, is_walking,
                   move_direction, target_yaw, target_position, control_applied,
                   applied_torque, tq, combat_vars, world_vars, tick, frame>>

\* ActiveRagdoll::start_recovery
StartRecovery ==
    /\ mode' = Recovery(0)
    /\ recovery_clock' = 0
    /\ last_call' = "start_recovery"
    /\ UNCHANGED <<global_strength, strength, muscle_target, walk_phase, is_walking,
                   move_direction, target_yaw, target_position, control_applied,
                   applied_torque, tq, combat_vars, world_vars, tick, frame>>

\* ActiveRagdoll::apply_impact: inside `if let Some(handle) = bodies.get(..)`
\* the impulse goes to the body when the world still has it, and the muscle of
\* the bone is weakened.  The call is taken while 0.3 * strength stays on the
\* grid.
ApplyImpact(bone_id) ==
    /\ bone_id \in MuscleBones => (3 * strength[bone_id]) % 10 = 0
    /\ strength' = IF bone_id \in bodies /\ bone_id \in MuscleBones
                   THEN [strength EXCEPT ![bone_id] = ImpactStrength(@)]
                   ELSE strength
    /\ impulse_skipped' = IF HasBody(bone_id) THEN None ELSE bone_id
    /\ last_call' = "apply_impact"
    /\ UNCHANGED <<mode, global_strength, muscle_target, walk_phase, is_walking,
                   move_direction, target_yaw, target_position, control_applied,
                   applied_torque, recovery_clock, tq, combat_vars, bodies, joints,
                   rigid_body_set, build, walk, snapshot, tick, frame>>

\* MuscleSystem::set_muscle_strength, on the muscles of the ragdoll
SetMuscleStrength(bone_id, s) ==
    /\ strength' = IF bone_id \in MuscleBones
                   THEN [strength EXCEPT ![bone_id] = ClampStrength(s)]
                   ELSE strength
    /\ last_call' = "set_muscle_strength"
    /\ UNCHANGED <<mode, global_strength, muscle_target, walk_phase, is_walking,
                   move_direction, target_yaw, target_position, control_applied,
                   applied_torque, recovery_clock, tq, combat_vars, world_vars, tick, frame>>

\* The calls as a test makes them, outside the frame loop
UpdateStep ==
    \E delta \in Deltas, obs \in Observations : Update(delta, obs) /\ UNCHANGED frame
SetMoveDirectionStep ==
    \E direction \in Directions : SetMoveDirection(direction) /\ UNCHANGED frame
ApplyImpactStep == \E bone_id \in ImpactBones : ApplyImpact(bone_id)
SetMuscleStrengthStep ==
    \E bone_id \in StrengthBones, s \in StrengthInputs : SetMuscleStrength(bone_id, s)

Next ==
    \/ UpdateStep
    \/ SetMoveDirectionStep
    \/ GoRagdoll
    \/ StartRecovery
    \/ ApplyImpactStep

Spec == Init /\ [][Next]_vars

\* The controller with direct access to the strength of its muscles
NextStrength ==
    \/ Next
    \/ SetMuscleStrengthStep

SpecStrength == Init /\ [][NextStrength]_vars

-----------------------------------------------------------------------------
(* Bodies that go missing.  PhysicsWorld::rigid_body_set and Skeleton::bodies *)
(* are public fields: the owner of the world can remove a body, which leaves  *)
(* a stale handle in the skeleton, or drop the handle from the skeleton's map *)

StaleBones == {"Spine"}

\* rigid_body_set.remove(handle): the skeleton keeps the handle
RemoveBody(b) ==
    /\ b \in rigid_body_set
    /\ rigid_body_set' = rigid_body_set \ {b}
    /\ last_call' = "rigid_body_set.remove"
    /\ UNCHANGED <<mode, global_strength, strength, muscle_target, walk_phase,
                   is_walking, move_direction, target_yaw, target_position,
                   control_applied, applied_torque, recovery_clock, tq, combat_vars, bodies,
                   joints, build, walk, snapshot, impulse_skipped, tick, frame>>

\* skeleton.bodies.remove(&bone_id)
ForgetBody(b) ==
    /\ b \in bodies
    /\ bodies' = bodies \ {b}
    /\ last_call' = "bodies.remove"
    /\ UNCHANGED <<mode, global_strength, strength, muscle_target, walk_phase,
                   is_walking, move_direction, target_yaw, target_position,
                   control_applied, applied_torque, recovery_clock, tq, combat_vars, joints,
                   rigid_body_set, build, walk, snapshot, impulse_skipped, tick, frame>>

\* ActiveRagdoll::get_bone_transforms (&self): the returned vector is kept in
\* snapshot
GetBoneTransforms ==
    /\ snapshot' = BoneTransforms
    /\ last_call' = "get_bone_transforms"
    /\ UNCHANGED <<mode, global_strength, strength, muscle_target, walk_phase,
                   is_walking, move_direction, target_yaw, target_position,
                   control_applied, applied_torque, recovery_clock, tq, combat_vars, bodies,
                   joints, rigid_body_set, build, walk, impulse_skipped, tick, frame>>

RemoveBodyStep == \E b \in StaleBones : RemoveBody(b)

ForgetBodyStep == \E b \in StaleBones : ForgetBody(b)

NextWorld ==
    \/ UpdateStep
    \/ StartRecovery
    \/ GoRagdoll
    \/ ApplyImpactStep
    \/ RemoveBodyStep
    \/ ForgetBodyStep
    \/ GetBoneTransforms

SpecWorld == Init /\ [][NextWorld]_vars


\* The frame loop calls update() once per frame with the frame's time
PosUpdateStep ==
    \E delta \in PosDeltas, obs \in Observations : Update(delta, obs) /\ UNCHANGED frame

SpecLive == Spec /\ WF_vars(PosUpdateStep)

-----------------------------------------------------------------------------
(* Muscle::calculate_torque on its own: one call per behaviour, the inputs *)
(* drawn by the initial state                                              *)

TorqueStrengths == {0, 99, 100, 3000, StrengthOne}     \* 0, 0.0099, 0.01, 0.3, 1.0
TorqueAxes == {<<1, 0, 0>>, <<0, 1, 0>>, <<0, 0, -1>>}
TorqueAngles == {0, 5, PI, 40, TAU}                    \* to_axis_angle yields [0, 2*pi]
TorqueSpins == {-50, 0, 20}                            \* angular velocity about the axis

TorqueInputs ==
    {[called |-> FALSE, bone |-> b, strength |-> s, axis |-> a, angle |-> g,
      angular_velocity |-> VecScale(a, w), result |-> Zero3] :
        b \in MuscleBones, s \in TorqueStrengths, a \in TorqueAxes,
        g \in TorqueAngles, w \in TorqueSpins}

InitTorque ==
    /\ InitRagdoll
    /\ InitWorld
    /\ CombatAtRest
    /\ tq \in TorqueInputs

CallTorque ==
    /\ ~tq.called
    /\ tq' = [tq EXCEPT !.called = TRUE,
                        !.result = calculate_torque(MuscleOf(tq.bone, tq.strength),
                                                    tq.axis, tq.angle, tq.angular_velocity)]
    /\ UNCHANGED ragdoll_vars

NextTorque == CallTorque

SpecTorque == InitTorque /\ [][NextTorque]_vars


-----------------------------------------------------------------------------
(* The frame loop of main.rs.  Window events arrive between frames; the     *)
(* RedrawRequested handler is followed statement by statement: the ragdoll *)
(* update, the physics step with the snapshot for the renderer, the input. *)

\* WindowEvent::KeyboardInput: the keys held now give this direction
KeyEvent(direction) ==
    /\ frame.pc = "events"
    /\ frame' = [frame EXCEPT !.keys = direction]
    /\ UNCHANGED <<controller_vars, tq, combat_vars, world_vars, tick>>

\* RedrawRequested, PHYSICS UPDATE: ragdoll.update(physics, delta)
FrameUpdate(delta, obs) ==
    /\ frame.pc = "events"
    /\ frame.count < MaxFrames
    /\ Update(delta, obs)
    /\ frame' = [frame EXCEPT !.count = @ + 1, !.pc = "step",
                              !.calls = <<"ragdoll.update">>,
                              !.used_input = frame.input_frame]

\* RedrawRequested, PHYSICS UPDATE: physics.step(delta), then the snapshot
\* of the bones for the renderer
FrameStep ==
    /\ frame.pc = "step"
    /\ frame' = [frame EXCEPT !.pc = "input",
                              !.calls = @ \o <<"physics.step", "get_bone_transforms">>]
    /\ snapshot' = BoneTransforms
    /\ UNCHANGED <<controller_vars, tq, combat_vars, bodies, joints, rigid_body_set, build, walk,
                   impulse_skipped, tick>>

\* RedrawRequested, CAMERA + PLAYER UPDATE: ragdoll.set_move_direction(move_dir)
FrameInput ==
    /\ frame.pc = "input"
    /\ SetMoveDirection(frame.keys)
    /\ frame' = [frame EXCEPT !.pc = "events",
                              !.calls = @ \o <<"set_move_direction">>,
                              !.input_frame = frame.count]

NextFrame ==
    \/ \E direction \in Directions : KeyEvent(direction)
    \/ \E delta \in Deltas, obs \in Observations : FrameUpdate(delta, obs)
    \/ FrameStep
    \/ FrameInput

SpecFrame == Init /\ [][NextFrame]_vars

-----------------------------------------------------------------------------
(* Skeleton::create_humanoid, one loop iteration per step, and a walk up    *)
(* BoneId::parent from a bone drawn by the initial state                     *)

\* Skeleton::create_bodies: one iteration of the loop over all_bones().  The
\* position of the parent is looked up with unwrap(): a parent not visited
\* yet is a panic.
CreateBody ==
    /\ build.stage = "bodies"
    /\ LET bone_id == AllBones[build.i]
           last == build.i = Len(AllBones)
       IN  IF parent(bone_id) # None /\ parent(bone_id) \notin bodies
           THEN /\ build' = [build EXCEPT !.stage = "panic"]
                /\ UNCHANGED <<bodies, rigid_body_set>>
           ELSE /\ bodies' = bodies \cup {bone_id}
                /\ rigid_body_set' = rigid_body_set \cup {bone_id}
                /\ build' = [build EXCEPT !.stage = IF last THEN "joints" ELSE "bodies",
                                          !.i = IF last THEN 1 ELSE build.i + 1,
                                          !.n_bodies = @ + 1]
    /\ UNCHANGED <<controller_vars, tq, combat_vars, joints, walk, snapshot, impulse_skipped, tick, frame>>

\* Skeleton::create_joints: one iteration of the loop over all_bones().  The
\* handles of the parent and of the child are looked up with unwrap().
CreateJoint ==
    /\ build.stage = "joints"
    /\ LET bone_id == AllBones[build.i]
           last == build.i = Len(AllBones)
           next == [build EXCEPT !.stage = IF last THEN "done" ELSE "joints",
                                 !.i = IF last THEN 1 ELSE build.i + 1]
       IN  IF parent(bone_id) = None
           THEN /\ build' = next
                /\ UNCHANGED joints
           ELSE IF parent(bone_id) \notin bodies \/ bone_id \notin bodies
           THEN /\ build' = [build EXCEPT !.stage = "panic"]
                /\ UNCHANGED joints
           ELSE /\ joints' = joints \cup {bone_id}
                /\ build' = [next EXCEPT !.n_joints = @ + 1]
    /\ UNCHANGED <<controller_vars, tq, combat_vars, bodies, rigid_body_set, walk, snapshot, impulse_skipped, tick, frame>>

\* One application of BoneId::parent
FollowParent ==
    /\ parent(walk.bone) # None
    /\ Len(walk.path) <= Len(AllBones)
    /\ walk' = [walk EXCEPT !.bone = parent(walk.bone),
                            !.path = Append(walk.path, parent(walk.bone))]
    /\ UNCHANGED <<controller_vars, tq, combat_vars, bodies, joints, rigid_body_set, build,
                   snapshot, impulse_skipped, tick, frame>>

\* Skeleton::create_humanoid starts from empty maps
InitSkeleton ==
    /\ InitRagdoll
    /\ CombatAtRest
    /\ tq = [called |-> FALSE]
    /\ bodies = {}
    /\ joints = {}
    /\ rigid_body_set = {}
    /\ build = [stage |-> "bodies", i |-> 1, n_bodies |-> 0, n_joints |-> 0]
    /\ walk \in {[start |-> b, bone |-> b, path |-> <<b>>] : b \in BoneId}
    /\ snapshot = <<>>
    /\ impulse_skipped = None
    /\ tick = [steps |-> <<>>, targets |-> [b \in MuscleBones |-> Identity]]
    /\ frame = FrameAtRest

NextSkeleton ==
    \/ CreateBody
    \/ CreateJoint
    \/ FollowParent

SpecSkeleton == InitSkeleton /\ [][NextSkeleton]_vars

-----------------------------------------------------------------------------
(* The combat part of the frame loop of main.rs: a left click between frames *)
(* (MouseInput) and the COMBAT UPDATE and HITBOX UPDATE & COLLISION blocks of *)
(* RedrawRequested, which share nothing with the physics blocks after them.   *)

\* WindowEvent::MouseInput, left button pressed: start_attack, and a hitbox at
\* the weapon's tip when it returns true
MouseInput(direction, reach) ==
    \E c \in {start_attack(combat, direction)} :
        /\ combat' = c
        /\ hitboxes' = IF c.returned THEN Append(hitboxes, NewHitbox(reach)) ELSE hitboxes
        /\ combat_frame' = [call |-> "start_attack", delta |-> 0, phase |-> get_phase(c),
                            damaged |-> {}, spent |-> 0]
        /\ UNCHANGED <<enemies, noncombat_vars>>

\* RedrawRequested: combat.update, hitbox_manager.update, the collision loop
CombatFrame(delta) ==
    \E c \in {CombatUpdate(combat, delta)},
       hs \in {HitboxManagerUpdate(hitboxes, delta)} :
      \E st \in {CollisionLoop([hitboxes |-> hs, enemies |-> enemies, damaged |-> {}], 1, 1)} :
        /\ combat' = c
        /\ hitboxes' = st.hitboxes
        /\ enemies' = st.enemies
        /\ combat_frame' = [call |-> "frame", delta |-> delta, phase |-> get_phase(c),
                            damaged |-> st.damaged, spent |-> Len(hitboxes) - Len(hs)]
        /\ UNCHANGED noncombat_vars

MouseInputStep ==
    \E direction \in AttackDirections, reach \in SUBSET DOMAIN enemies :
        MouseInput(direction, reach)

CombatFrameStep == \E delta \in CombatDeltas : CombatFrame(delta)

\* The App with no enemy or with two
InitCombat ==
    /\ InitRagdoll
    /\ InitWorld
    /\ tq = [called |-> FALSE]
    /\ combat = CombatNew
    /\ hitboxes = <<>>
    /\ enemies \in EnemyLists
    /\ combat_frame = CombatFrameAtRest

NextCombat ==
    \/ MouseInputStep
    \/ CombatFrameStep

SpecCombat == InitCombat /\ [][NextCombat]_vars

-----------------------------------------------------------------------------
(* Claims *)

\* C1: the mode changes only in three ways: go_ragdoll() sets it to Ragdoll,
\* start_recovery() sets it to Recovery{0}, and an update() in Recovery
\* advances it, to Active when progress has reached 1 (global_strength is
\* then 1).  update() leaves Active and Ragdoll as they are, and no step
\* takes Ragdoll to Active.
C1_ModeTransitions ==
    [][ /\ (mode' # mode) =>
              \/ (last_call' = "go_ragdoll" /\ mode' = Ragdoll)
              \/ (last_call' = "start_recovery" /\ mode' = Recovery(0))
              \/ /\ last_call' = "update"
                 /\ mode.kind = "Recovery"
                 /\ mode'.kind \in {"Recovery", "Active"}
                 /\ (mode'.kind = "Active" => global_strength' = One)
        /\ (last_call' = "go_ragdoll") => (mode' = Ragdoll)
        /\ (last_call' = "start_recovery") => (mode' = Recovery(0))
        /\ (last_call' = "update" /\ mode.kind \in {"Active", "Ragdoll"}) => (mode' = mode)
        /\ (mode.kind = "Ragdoll") => (mode'.kind # "Active")
      ]_vars

\* an update() has completed a recovery
C1_Witness ==
    /\ mode = Active
    /\ last_call = "update"
    /\ recovery_clock = RecoveryDuration

\* C2 as claimed: right after go_ragdoll() returns, global_strength is 0
C2_ZeroRightAfterGoRagdoll ==
    (last_call = "go_ragdoll") => (global_strength = 0)

\* C2, amended: go_ragdoll() sets the mode to Ragdoll and leaves
\* global_strength as it was; the next update() that finds the mode Ragdoll
\* sets global_strength to 0 and hands only zero torques to the world.
C2_ZeroAtNextUpdate ==
    [][ /\ (last_call' = "go_ragdoll") =>
              (mode' = Ragdoll /\ global_strength' = global_strength)
        /\ (last_call' = "update" /\ mode = Ragdoll) =>
              /\ global_strength' = 0
              /\ \A b \in MuscleBones : applied_torque'[b] = Zero3
      ]_vars

\* go_ragdoll() has returned on a character that was under active control:
\* global_strength still holds the value of the last update()
C2_Witness ==
    /\ last_call = "go_ragdoll"
    /\ control_applied
    /\ global_strength = One
    /\ mode = Ragdoll

\* C3: once start_recovery() has returned, and as long as neither
\* go_ragdoll() nor start_recovery() is called again, the updates with a
\* positive delta bring the mode to Active with global_strength 1.0 (unless
\* the travel bound of the model stops update() first), and every further
\* update() leaves both there.
C3_RecoveryCompletes ==
    /\ (last_call = "start_recovery") ~> (last_call # "start_recovery")
    /\ (mode.kind = "Recovery" /\ last_call # "start_recovery")
          ~> \/ (mode = Active /\ global_strength = One)
             \/ last_call \in {"go_ragdoll", "start_recovery"}
             \/ ~ENABLED PosUpdateStep
    /\ [][ (mode = Active /\ global_strength = One /\ last_call' = "update") =>
              (mode' = Active /\ global_strength' = One) ]_vars

\* a recovery has completed and an impact weakened a muscle on the way
C3_Witness ==
    /\ mode = Active
    /\ global_strength = One
    /\ last_call = "update"
    /\ strength["Spine"] < StrengthOne

\* C4: an update(delta) in Recovery sets progress to
\* min(progress + 0.5 * delta, 1) and global_strength to the same value;
\* progress stays in [0, 1] and does not decrease; the mode becomes Active in
\* exactly the update in which that value reaches 1, which is 2 simulated
\* seconds after start_recovery().
C4_RecoveryRamp ==
    /\ [](mode.kind = "Recovery" =>
             /\ mode.progress \in 0..(One - 1)
             /\ 2 * mode.progress = recovery_clock)
    /\ [](mode = Active => recovery_clock = RecoveryDuration)
    /\ [][ \A delta \in Deltas, obs \in Observations :
              (mode.kind = "Recovery" /\ Update(delta, obs)) =>
                  LET p == Min(mode.progress + delta \div 2, One)
                  IN  /\ global_strength' = p
                      /\ p >= mode.progress
                      /\ (p = One) <=> (mode' = Active)
                      /\ (p < One) => (mode' = Recovery(p))
      ]_vars

\* 1.75 simulated seconds into a recovery
C4_Witness ==
    /\ mode = Recovery(One - 1)
    /\ global_strength = One - 1
    /\ last_call = "update"

\* C5: apply_impact(X, impulse) takes muscle X's strength to exactly 0.3
\* times its value and changes neither another muscle's strength nor
\* global_strength, the mode, is_walking or the targets (Pelvis has no
\* muscle: there nothing changes).
C5_ImpactWeakensOneMuscle ==
    [][ \A bone_id \in ImpactBones :
            ApplyImpact(bone_id) =>
                /\ (bone_id \in MuscleBones) =>
                       (10 * strength'[bone_id] = 3 * strength[bone_id])
                /\ \A other \in MuscleBones \ {bone_id} :
                       strength'[other] = strength[other]
                /\ UNCHANGED <<global_strength, mode, is_walking, muscle_target,
                               target_position, target_yaw>>
      ]_vars

\* the second impact on the spine
C5_Witness ==
    /\ last_call = "apply_impact"
    /\ strength["Spine"] * 100 = 9 * StrengthOne
    /\ strength["Head"] = StrengthOne

\* C6: calculate_torque returns the zero vector whenever strength < 0.01
C6_RelaxedMuscleNoTorque ==
    (tq.called /\ tq.strength * 100 < StrengthOne) => (tq.result = Zero3)

\* strength 0.0099 against an error of pi and a spinning body
C6_Witness ==
    /\ tq.called
    /\ tq.strength = 99
    /\ tq.angle = PI
    /\ tq.angular_velocity # Zero3
    /\ tq.result = Zero3

\* C7: the magnitude of the torque calculate_torque returns is at most max_torque
C7_TorqueWithinMax ==
    tq.called => (AxisLength(tq.result) <= ScaledMax(MuscleParams[tq.bone].max_torque))

\* the clamp acted: the PD torque times strength was larger than max_torque
C7_Witness ==
    /\ tq.called
    /\ AxisLength(tq.result) = ScaledMax(MuscleParams[tq.bone].max_torque)
    /\ AxisLength(VecScale(PDTerm(MuscleOf(tq.bone, tq.strength), tq.axis, tq.angle,
                                  tq.angular_velocity), tq.strength))
          > ScaledMax(MuscleParams[tq.bone].max_torque)

\* C8 as claimed: for strength >= 0.01 the result is
\* strength * clamp_magnitude(Kp*axis*angle + Kd*(-angular_velocity), max_torque)
C8_StrengthScalesClampedTorque ==
    (tq.called /\ ~Relaxed(tq.strength)) =>
        LET m == MuscleOf(tq.bone, tq.strength)
        IN  /\ tq.result =
                 VecScale(ClampMagnitude(PDTerm(m, tq.axis, tq.angle, tq.angular_velocity),
                                         m.max_torque * 10),
                          tq.strength)
            /\ AxisLength(tq.result) <= tq.strength * m.max_torque * 10

\* C9: WalkCycle.update(delta, false) leaves the phase as it is, so an
\* update() of the ragdoll made while is_walking is false does too.
C9_PhaseHeldWhileStanding ==
    /\ [](\A delta \in Deltas : WalkCycleUpdate(walk_phase, delta, FALSE) = walk_phase)
    /\ [][ (last_call' = "update" /\ ~is_walking) => (walk_phase' = walk_phase) ]_vars

\* an update() of a character that stopped in mid-stride
C9_Witness ==
    /\ last_call = "update"
    /\ ~is_walking
    /\ walk_phase = One \div 2

\* C10 as claimed: the walk phase stays in [0, 1)
C10_PhaseInUnitInterval ==
    walk_phase >= 0 /\ walk_phase < One

\* C11: the parent relation is a tree rooted at Pelvis: Pelvis is the only
\* bone without a parent, and following parent() from any bone visits no bone
\* twice, takes at most 3 steps and can only stop at Pelvis.
C11_ParentTree ==
    /\ \A b \in BoneId : (parent(b) = None) <=> (b = "Pelvis")
    /\ \A b \in BoneId : parent(b) \in BoneId \cup {None}
    /\ \A i, j \in 1..Len(walk.path) : (walk.path[i] = walk.path[j]) => (i = j)
    /\ Len(walk.path) - 1 <= 3
    /\ (~ENABLED FollowParent) => (walk.bone = "Pelvis")

\* the walk from the left forearm has arrived after 3 steps
C11_Witness ==
    /\ walk.start = "LeftLowerArm"
    /\ walk.bone = "Pelvis"
    /\ walk.path = <<"LeftLowerArm", "LeftUpperArm", "Spine", "Pelvis">>

\* C12: create_humanoid never fails a lookup; when it is done there is one
\* body per bone (11) and one joint per bone but the root (10); a body is
\* created after its parent's, a joint after its parent's joint, and a joint
\* connects two bodies that exist.
C12_SkeletonBuilt ==
    /\ build.stage # "panic"
    /\ \A b \in bodies : parent(b) = None \/ parent(b) \in bodies
    /\ \A b \in joints :
          /\ b \in bodies /\ b \in rigid_body_set
          /\ parent(b) \in bodies /\ parent(b) \in rigid_body_set
          /\ parent(parent(b)) = None \/ parent(b) \in joints
    /\ Cardinality(bodies) = build.n_bodies
    /\ Cardinality(joints) = build.n_joints
    /\ (build.stage = "done") =>
          /\ bodies = BoneId /\ build.n_bodies = 11
          /\ joints = BoneId \ {"Pelvis"} /\ build.n_joints = 10
          /\ rigid_body_set = BoneId

\* create_humanoid has returned
C12_Witness ==
    /\ build.stage = "done"
    /\ Cardinality(bodies) = 11
    /\ Cardinality(joints) = 10

C14_InputThenUpdateThenStep ==
    (frame.pc = "events" /\ frame.count > 0) =>
        /\ RanBefore(frame.calls, "set_move_direction", "ragdoll.update")
        /\ RanBefore(frame.calls, "ragdoll.update", "physics.step")
        /\ Cardinality({i \in 1..Len(frame.calls) : frame.calls[i] = "physics.step"}) = 1
        /\ frame.used_input = frame.count

\* C15: go_ragdoll(), in any mode and walking or not, leaves the mode Ragdoll
\* and is_walking false and changes nothing else: move_direction,
\* target_position, target_yaw, the walk phase, global_strength and every
\* muscle's strength and target stay as they were.
C15_GoRagdollFrame ==
    [][ (last_call' = "go_ragdoll") =>
            /\ mode' = Ragdoll
            /\ is_walking' = FALSE
            /\ UNCHANGED <<move_direction, target_position, target_yaw, walk_phase,
                           global_strength, strength, muscle_target, applied_torque,
                           bodies, joints, rigid_body_set>>
      ]_vars

\* go_ragdoll() on a character that had walked away from the spawn point on
\* a weakened spine
C15_Witness ==
    /\ last_call = "go_ragdoll"
    /\ mode = Ragdoll
    /\ ~is_walking
    /\ move_direction = <<3, 0, 4>>
    /\ target_position # Zero3
    /\ strength["Spine"] < StrengthOne
    /\ muscle_target["Spine"].kind = "walk"

\* C16: in every state reachable through update (with a frame time >= 0),
\* go_ragdoll, start_recovery, apply_impact, set_move_direction and
\* set_muscle_strength, global_strength and every muscle's strength lie in
\* [0, 1].
C16_StrengthsInUnitInterval ==
    /\ global_strength >= 0 /\ global_strength <= One
    /\ \A b \in MuscleBones : strength[b] >= 0 /\ strength[b] <= StrengthOne

\* set_muscle_strength(Spine, -0.5) in the middle of a recovery
C16_Witness ==
    /\ last_call = "set_muscle_strength"
    /\ strength["Spine"] = 0
    /\ global_strength = One \div 2
    /\ mode = Recovery(One \div 2)

\* C17: get_bone_transforms returns exactly the bones that have a live body,
\* each once and in all_bones order (all 11 when no body is missing, a bone
\* with a stale handle left out), and it changes no state of the ragdoll or
\* of the world.
C17_BoneTransforms ==
    [][last_call' = "get_bone_transforms" =>
        /\ {snapshot'[i] : i \in DOMAIN snapshot'} = {b \in BoneId : HasBody(b)}
        /\ \A i, j \in DOMAIN snapshot' :
              i < j => \E k, l \in DOMAIN AllBones :
                          /\ k < l
                          /\ AllBones[k] = snapshot'[i]
                          /\ AllBones[l] = snapshot'[j]
        /\ (\A b \in BoneId : HasBody(b)) => Len(snapshot') = 11
        /\ UNCHANGED <<mode, global_strength, strength, muscle_target, walk_phase,
                       is_walking, move_direction, target_yaw, target_position,
                       bodies, joints, rigid_body_set>>
      ]_vars

\* a snapshot taken while the skeleton holds a stale handle for the spine
C17_Witness ==
    /\ last_call = "get_bone_transforms"
    /\ "Spine" \in bodies
    /\ "Spine" \notin rigid_body_set
    /\ Len(snapshot) = 10
    /\ snapshot[1] = "Pelvis"
    /\ snapshot[2] = "Head"

\* C18: apply_impact on a bone whose body cannot be found (no handle in the
\* skeleton, or a handle the world no longer knows) applies no impulse and
\* changes no muscle strength.
C18_MissingBodyNoOp ==
    [][(last_call' = "apply_impact" /\ impulse_skipped' # None) =>
        /\ ~HasBody(impulse_skipped')
        /\ strength' = strength
      ]_vars

\* C19: set_move_direction(d) with |d|^2 > 0.01 sets is_walking, stores d/|d|
\* (a unit vector along d) and target_yaw = atan2(-d.x, -d.z); with a shorter d
\* it clears is_walking and keeps move_direction and target_yaw.  Either way
\* the mode, target_position and every muscle stay as they were.
C19_SetMoveDirection ==
    [][last_call' = "set_move_direction" =>
        /\ \E d \in Directions :
              \/ /\ LengthSquared(d) > 4
                 /\ is_walking'
                 /\ LengthSquared(move_direction') = 25
                 /\ VecScale(move_direction', VecLength(d)) = VecScale(d, 5)
                 /\ target_yaw' = [y |-> -d[1], x |-> -d[3]]
              \/ /\ LengthSquared(d) <= 4
                 /\ ~is_walking'
                 /\ UNCHANGED <<move_direction, target_yaw>>
        /\ UNCHANGED <<mode, target_position, global_strength, strength,
                       muscle_target, walk_phase, applied_torque>>
      ]_vars

\* set_move_direction((3, 0, 4)) on a standing character in Active mode
C19_Witness ==
    /\ last_call = "set_move_direction"
    /\ mode = Active
    /\ is_walking
    /\ move_direction = <<3, 0, 4>>
    /\ target_yaw = [y |-> -60, x |-> -80]

\* C20: an update() that finds the mode Ragdoll (the first one after new()
\* and the first one after go_ragdoll() included) leaves the mode Ragdoll,
\* runs neither the movement control nor the upright torque, does not move
\* target_position, and hands the zero vector to the world for every muscle.
C20_RagdollMusclesOff ==
    [][(last_call' = "update" /\ mode = Ragdoll) =>
        /\ mode' = Ragdoll
        /\ ~control_applied'
        /\ ~RanBefore(tick'.steps, "apply_movement_control", "muscles.update")
        /\ ~RanBefore(tick'.steps, "apply_upright_torque", "muscles.update")
        /\ target_position' = target_position
        /\ \A b \in MuscleBones : applied_torque'[b] = Zero3
      ]_vars

\* the update() after go_ragdoll() on a character that had walked under
\* active control
C20_Witness ==
    /\ last_call = "update"
    /\ mode = Ragdoll
    /\ target_position # Zero3
    /\ recovery_clock = 0
    /\ global_strength = 0
    /\ ~control_applied
    /\ \A b \in MuscleBones : applied_torque[b] = Zero3

\* C21: Combat.state only moves round the cycle Ready -> Attacking ->
\* Cooldown -> Ready.  Ready is left only by a start_attack that returns
\* true, to Attacking with the whole attack ahead; Attacking is left only by
\* an update that brings the remaining time to <= 0, to Cooldown; Cooldown
\* is left only by such an update, to Ready; and an update that does not
\* bring the remaining time to <= 0 keeps the state's kind.
C21_AttackCycle ==
    [][ /\ (combat.state.kind = "Ready" /\ combat'.state.kind # "Ready") =>
              /\ combat_frame'.call = "start_attack"
              /\ combat'.returned = TRUE
              /\ combat'.state = Attacking(TotalDuration)
        /\ (combat.state.kind = "Attacking" /\ combat'.state.kind # "Attacking") =>
              /\ combat_frame'.call = "frame"
              /\ combat.state.remaining - combat_frame'.delta <= 0
              /\ combat'.state = Cooldown(AttackCooldown)
        /\ (combat.state.kind = "Cooldown" /\ combat'.state.kind # "Cooldown") =>
              /\ combat_frame'.call = "frame"
              /\ combat.state.remaining - combat_frame'.delta <= 0
              /\ combat'.state = Ready
        /\ (combat.state.kind # "Ready" /\ combat'.state.kind = combat.state.kind) =>
              /\ combat'.state.remaining <= combat.state.remaining
              /\ combat_frame'.call = "frame" =>
                    combat.state.remaining - combat_frame'.delta > 0
      ]_vars

\* an attack along (3, 0, 4) has run through Attacking and Cooldown and the
\* state is Ready again
C21_Witness ==
    /\ combat_frame.call = "frame"
    /\ combat.state = Ready
    /\ combat.returned = TRUE
    /\ combat.attack_direction = <<3, 0, 4>>
    /\ combat.attack_progress = 0

\* C22: start_attack returns true and enters Attacking(total attack
\* duration) exactly when the state is Ready; in Attacking or Cooldown it
\* returns false and leaves state, attack_direction and attack_progress as
\* they were.
C22_AttackOnlyWhenReady ==
    [][combat_frame'.call = "start_attack" =>
        IF combat.state.kind = "Ready"
        THEN /\ combat'.returned = TRUE
             /\ combat'.state = Attacking(TotalDuration)
        ELSE /\ combat'.returned = FALSE
             /\ combat'.state = combat.state
             /\ combat'.attack_direction = combat.attack_direction
             /\ combat'.attack_progress = combat.attack_progress
      ]_vars

\* a click during the cooldown of an attack along (3, 0, 4)
C22_Witness ==
    /\ combat_frame.call = "start_attack"
    /\ combat.returned = FALSE
    /\ combat.state.kind = "Cooldown"
    /\ combat.attack_direction = <<3, 0, 4>>
    /\ combat.attack_progress = TotalDuration

\* C23: while the attack is in its Anticipation phase no hitbox is active,
\* and an enemy loses health in a frame only when the attack is in its
\* Action phase.
C23_DamageOnlyInAction ==
    /\ (get_phase(combat) = "Anticipation") => (hitboxes = <<>>)
    /\ (combat_frame.damaged # {}) => (combat_frame.phase = "Action")

\* C24: a hitbox calls take_damage on each enemy at most once however many
\* frames it overlaps it, and a hitbox whose lifetime reaches <= 0 in a
\* frame is removed before that frame's collision check: the hitboxes a
\* frame leaves all have time left, and a frame that starts with spent
\* hitboxes only harms no enemy.
C24_OneHitPerEnemy ==
    [][combat_frame'.call = "frame" =>
        /\ \A k \in 1..Len(hitboxes') :
              /\ hitboxes'[k].lifetime > 0
              /\ \A i \in DOMAIN hitboxes'[k].taken : hitboxes'[k].taken[i] <= 1
        /\ combat_frame'.spent =
              Cardinality({k \in 1..Len(hitboxes) :
                              hitboxes[k].lifetime - combat_frame'.delta <= 0})
        /\ (combat_frame'.spent = Len(hitboxes)) =>
              /\ hitboxes' = <<>>
              /\ enemies' = enemies
              /\ combat_frame'.damaged = {}
      ]_vars

\* the second frame of a hitbox over two living enemies: both were hit in
\* its first frame and neither is hit again
C24_Witness ==
    /\ combat_frame.call = "frame"
    /\ combat_frame.damaged = {}
    /\ Len(hitboxes) = 1
    /\ hitboxes[1].lifetime = 1
    /\ hitboxes[1].hit_enemies = <<1, 2>>
    /\ enemies[1].health = EnemyHealth - HitboxDamage
    /\ is_alive(enemies[2])

\* C25: target_position changes only inside an update() that leaves the
\* mode Active while is_walking is true (and the pelvis body is there), and
\* then by exactly move_direction * move_speed * delta for the delta that
\* also drove the walk cycle; every other operation, and every update that
\* ends in Ragdoll or Recovery, leaves it as it was.
C25_TargetAdvance ==
    [][IF /\ last_call' = "update"
          /\ mode'.kind = "Active"
          /\ is_walking
          /\ HasBody("Pelvis")
       THEN \E delta \in Deltas :
               /\ walk_phase' = WalkCycleUpdate(walk_phase, delta, TRUE)
               /\ \A i \in 1..3 :
                     target_position'[i] =
                         target_position[i] + move_direction[i] * MoveSpeed * delta
       ELSE target_position' = target_position
      ]_vars

\* a walking update in Active mode, half a second along (3, 0, 4) away from
\* where a ragdoll fall had left the target
C25_Witness ==
    /\ last_call = "update"
    /\ mode = Active
    /\ is_walking
    /\ move_direction = <<3, 0, 4>>
    /\ target_position # Zero3
    /\ recovery_clock = RecoveryDuration
    /\ \E delta \in PosDeltas : target_position = VecScale(move_direction, MoveSpeed * delta)

\* C26: right after every update() global_strength agrees with the mode:
\* 1 in Active, 0 in Ragdoll, the progress in Recovery.
C26_StrengthMatchesMode ==
    (last_call = "update") =>
        /\ (mode.kind = "Active") => (global_strength = One)
        /\ (mode.kind = "Ragdoll") => (global_strength = 0)
        /\ (mode.kind = "Recovery") => (global_strength = mode.progress)

\* the first update() of a recovery that was started on a walking character
\* under full control
C26_Witness ==
    /\ last_call = "update"
    /\ mode.kind = "Recovery"
    /\ mode.progress = 1
    /\ global_strength = 1
    /\ is_walking
    /\ target_position # Zero3

\* C27: update, go_ragdoll, start_recovery, set_move_direction and
\* apply_impact never raise the strength of a muscle; a strength only goes
\* up in a set_muscle_strength call.
C27_StrengthNeverRestored ==
    [][(last_call' # "set_muscle_strength") =>
          \A b \in MuscleBones : strength'[b] <= strength[b]
      ]_vars

\* the spine, hit four times, is as weak as the hits left it after a whole
\* recovery has brought the character back under active control
C27_Witness ==
    /\ last_call = "update"
    /\ mode = Active
    /\ global_strength = One
    /\ recovery_clock = RecoveryDuration
    /\ strength["Spine"] * 10000 = 81 * StrengthOne
    /\ strength["Head"] = StrengthOne

\* C28: four apply_impact calls on one bone take its strength from 1 to
\* 0.0081, the first value of the chain under the 0.01 threshold; from then on
\* every update leaves that muscle's torque at zero, whatever the mode and
\* global_strength, while a muscle at or above the threshold still gets a
\* nonzero torque in an update that ends in Active.
C28_FourImpactsSilenceMuscle ==
    [][(last_call' = "update") =>
          \A b \in MuscleBones :
              /\ strength[b] * 100 < StrengthOne <=>
                     strength[b] = ImpactStrength(ImpactStrength(ImpactStrength(
                                       ImpactStrength(StrengthOne))))
              /\ strength[b] * 100 < StrengthOne => applied_torque'[b] = Zero3
              /\ (strength[b] * 100 >= StrengthOne /\ mode' = Active) => applied_torque'[b] # Zero3
      ]_vars

C28_Witness ==
    /\ last_call = "update" /\ mode = Active /\ global_strength = One
    /\ strength["Spine"] * 10000 = 81 * StrengthOne
    /\ applied_torque["Spine"] = Zero3
    /\ \A b \in MuscleBones \ {"Spine"} :
           strength[b] = StrengthOne /\ applied_torque[b] # Zero3

\* C29: an update() applies the steering and upright torques exactly when
\* the mode is Active once that update's mode match has run: the update in
\* which a recovery reaches progress 1 applies them, an update that ends in
\* Recovery or in Ragdoll does not.
C29_ControlOnResolvedMode ==
    [][(last_call' = "update") =>
          /\ control_applied' <=> (mode' = Active)
          /\ (mode.kind = "Recovery" /\ mode' = Active) =>
                 /\ control_applied'
                 /\ RanBefore(tick'.steps, "match self.mode", "apply_movement_control")
                 /\ RanBefore(tick'.steps, "match self.mode", "apply_upright_torque")
          /\ (mode'.kind \in {"Recovery", "Ragdoll"}) =>
                 /\ ~control_applied'
                 /\ \A i \in 1..Len(tick'.steps) :
                        tick'.steps[i] \notin {"apply_movement_control", "apply_upright_torque"}
      ]_vars

\* a standing character whose recovery has run its two seconds: the update
\* that completed it was under control
C29_Witness ==
    /\ last_call = "update"
    /\ mode = Active
    /\ control_applied
    /\ recovery_clock = RecoveryDuration
    /\ ~is_walking
    /\ target_position = Zero3
    /\ \E i \in 1..Len(tick.steps) : tick.steps[i] = "apply_upright_torque"

\* C30: whenever the mode is Ragdoll, is_walking is false, whatever the
\* interleaving of set_move_direction, go_ragdoll, start_recovery and update.
C30_NoWalkingInRagdoll == (mode = Ragdoll) => ~is_walking

====
